---- MODULE Spec2Model ----
(***************************************************************************)
(* The scheduling runs of backend/deeptalk/ollama_task_agent.py            *)
(* (run_edf_scheduling, run_hpf_scheduling) over the Task and TimeBlock    *)
(* objects of backend/task_manager/models.py.                              *)
(*                                                                         *)
(* Instants are whole minutes since midnight of day 0.  An optional value  *)
(* (Python None or a value) is a sequence of length 0 or 1.  Decimal       *)
(* fields with two places (urgency_multiplier, category_weight) are held   *)
(* in hundredths, importance_weight in tenths; calculated_priority is      *)
(* therefore held in units of 1/10000.  Scores that are quotients in the   *)
(* code are held as exact fractions <<numerator, denominator>>.            *)
(***************************************************************************)
EXTENDS Integers, Sequences, FiniteSets, TLC

\* Bounds of the model.
MaxTasks == 2
MaxBlocks == 2
MaxNow == 2

None == << >>
Some(x) == <<x>>
IsNone(o) == o = << >>
Val(o) == o[1]

\* Python truthiness of an optional integer: None and 0 are both falsy.
Truthy(o) == (o # << >>) /\ (o[1] # 0)

MinOf(S) == CHOOSE x \in S : \A y \in S : x <= y
MaxOf(S) == CHOOSE x \in S : \A y \in S : x >= y

\* A time-of-day string such as "09:00", one character per element.
T0900 == <<"0", "9", ":", "0", "0">>
T1000 == <<"1", "0", ":", "0", "0">>
T0000 == <<"0", "0", ":", "0", "0">>

(***************************************************************************)
(* Inputs: the task objects and time-block objects a caller may pass.      *)
(***************************************************************************)
TaskPool ==
  { [name |-> "report", estimated_duration_minutes |-> 30, deadline |-> Some(1),
     base_priority |-> 1, urgency_multiplier |-> 100, category |-> None,
     can_be_split |-> TRUE, preferred_time_of_day |-> << >>, avoid_time_of_day |-> << >>],
    [name |-> "review", estimated_duration_minutes |-> 60, deadline |-> Some(1441),
     base_priority |-> 2, urgency_multiplier |-> 100, category |-> None,
     can_be_split |-> FALSE, preferred_time_of_day |-> << >>, avoid_time_of_day |-> << >>],
    [name |-> "standup", estimated_duration_minutes |-> 30, deadline |-> Some(1441),
     base_priority |-> 3, urgency_multiplier |-> 100, category |-> None,
     can_be_split |-> TRUE, preferred_time_of_day |-> <<T0900, T1000>>, avoid_time_of_day |-> << >>],
    [name |-> "gym", estimated_duration_minutes |-> 60, deadline |-> None,
     base_priority |-> 2, urgency_multiplier |-> 100, category |-> Some([category_weight |-> 200]),
     can_be_split |-> TRUE, preferred_time_of_day |-> << >>, avoid_time_of_day |-> <<T0000>>],
    [name |-> "email", estimated_duration_minutes |-> 30, deadline |-> None,
     base_priority |-> 4, urgency_multiplier |-> 100, category |-> None,
     can_be_split |-> FALSE, preferred_time_of_day |-> << >>, avoid_time_of_day |-> << >>] }

BlockPool ==
  { [start_time |-> 0, end_time |-> 60, status |-> "available", can_be_split |-> TRUE,
     min_task_duration_minutes |-> None, max_task_duration_minutes |-> None,
     importance_weight |-> 10],
    [start_time |-> 60, end_time |-> 90, status |-> "available", can_be_split |-> FALSE,
     min_task_duration_minutes |-> None, max_task_duration_minutes |-> None,
     importance_weight |-> 10],
    [start_time |-> 540, end_time |-> 600, status |-> "available", can_be_split |-> TRUE,
     min_task_duration_minutes |-> Some(15), max_task_duration_minutes |-> Some(240),
     importance_weight |-> 10],
    [start_time |-> 600, end_time |-> 660, status |-> "occupied", can_be_split |-> FALSE,
     min_task_duration_minutes |-> None, max_task_duration_minutes |-> None,
     importance_weight |-> 10],
    [start_time |-> 0, end_time |-> 60, status |-> "available", can_be_split |-> TRUE,
     min_task_duration_minutes |-> Some(60), max_task_duration_minutes |-> Some(0),
     importance_weight |-> 20] }

\* Lists of at most n distinct objects of S.
ListsUpTo(S, n) ==
  UNION { { s \in [1..k -> S] : \A i, j \in 1..k : i # j => s[i] # s[j] } : k \in 0..n }

VARIABLES
  tasks,              \* the caller's task list
  time_blocks,        \* the caller's block list; the elements are the block objects
  time_blocks_at_start, \* the block objects as they were when the run began
  algorithm,          \* "EDF" or "HPF"
  now,                \* the wall clock read by timezone.now()
  pc,                 \* position of the run
  scheduling_run,     \* the SchedulingRun record
  sort_keys,          \* task index -> calculated_priority read for its sort key
  sorted_tasks,       \* task indices in attempt order
  available_blocks,   \* the working list: indices of block objects
  scheduled_tasks,
  unscheduled_tasks,
  decisions,          \* ScheduleDecision records, in creation order
  total_priority_score,
  iteration,          \* number of completed iterations of the task loop
  attempts,           \* what each completed iteration saw, read and chose
  result,             \* the returned dictionary
  other_run,          \* a second call in progress on the same block objects: its
                      \* local variables while it is not the one taking steps
  alone_run,          \* the local variables a call ended with on blocks of its own
  context,            \* DialogueManager: the ConversationContext of the session
  response,           \* what the last process_user_input returned, or that it raised
  last_input,         \* the arguments of that call and the context it found
  proposed_task       \* the task data last put to the user for confirmation

vars == <<tasks, time_blocks, time_blocks_at_start, algorithm, now, pc, scheduling_run,
          sort_keys, sorted_tasks, available_blocks, scheduled_tasks, unscheduled_tasks,
          decisions, total_priority_score, iteration, attempts, result,
          other_run, alone_run, context, response, last_input, proposed_task>>

\* A dict without keys.
empty_dict == [key \in {} |-> 0]

\* DialogueManager._create_new_context; conversation_history is held as its length.
new_context ==
  [current_state |-> "idle", current_intent |-> None, pending_task_data |-> empty_dict,
   conversation_history |-> 0, clarification_needed |-> None]

(***************************************************************************)
(* Task.calculated_priority and TimeBlock.duration_minutes                 *)
(***************************************************************************)
\* Mutant: the tiers exclude the boundary they name.
deadline_factor_exclusive(task, t) ==
  IF IsNone(task.deadline) THEN 1
  ELSE LET minutes_until_deadline == Val(task.deadline) - t
       IN IF minutes_until_deadline < 0 THEN 5
          ELSE IF minutes_until_deadline < 24 * 60 THEN 3
          ELSE IF minutes_until_deadline < 168 * 60 THEN 2
          ELSE 1

deadline_factor(task, t) ==
  IF IsNone(task.deadline) THEN 1
  ELSE LET minutes_until_deadline == Val(task.deadline) - t
       IN IF minutes_until_deadline <= 0 THEN 5
          ELSE IF minutes_until_deadline <= 24 * 60 THEN 3
          ELSE IF minutes_until_deadline <= 168 * 60 THEN 2
          ELSE 1

category_weight(task) ==
  IF IsNone(task.category) THEN 100 ELSE Val(task.category).category_weight

calculated_priority(task, t) ==
  task.base_priority * task.urgency_multiplier * deadline_factor(task, t) * category_weight(task)

duration_minutes(block) == block.end_time - block.start_time

(***************************************************************************)
(* SmartSchedulingEngine._is_block_suitable_for_task                       *)
(***************************************************************************)
DigitVal ==
  [c \in {"0", "1", "2", "3", "4", "5", "6", "7", "8", "9"} |->
     CASE c = "0" -> 0 [] c = "1" -> 1 [] c = "2" -> 2 [] c = "3" -> 3 [] c = "4" -> 4
       [] c = "5" -> 5 [] c = "6" -> 6 [] c = "7" -> 7 [] c = "8" -> 8 [] c = "9" -> 9]

RECURSIVE DigitsToInt(_)
DigitsToInt(ds) ==
  IF ds = << >> THEN 0
  ELSE 10 * DigitsToInt(SubSeq(ds, 1, Len(ds) - 1)) + DigitVal[ds[Len(ds)]]

\* int(t.split(':')[0])
HourOf(t) ==
  LET k == MinOf({i \in 1..(Len(t) + 1) : i = Len(t) + 1 \/ t[i] = ":"})
  IN DigitsToInt(SubSeq(t, 1, k - 1))

\* block.start_time.hour
block_hour(block) == (block.start_time \div 60) % 24

HoursOf(times) == {HourOf(times[i]) : i \in 1..Len(times)}

preferred_time_ok(task, block) ==
  task.preferred_time_of_day # << >> =>
    LET preferred_hours == HoursOf(task.preferred_time_of_day)
    IN block_hour(block) \in MinOf(preferred_hours)..MaxOf(preferred_hours)

avoid_time_ok(task, block) ==
  task.avoid_time_of_day # << >> =>
    block_hour(block) \notin HoursOf(task.avoid_time_of_day)

is_block_suitable_for_task(task, block) ==
  /\ ~(duration_minutes(block) < task.estimated_duration_minutes)
  /\ preferred_time_ok(task, block)
  /\ avoid_time_ok(task, block)

(***************************************************************************)
(* Pieces of run_edf_scheduling and run_hpf_scheduling                     *)
(***************************************************************************)
\* Python compares key tuples lexicographically.
RECURSIVE tuple_less(_, _)
tuple_less(k1, k2) ==
  IF k1 = << >> \/ k2 = << >> THEN k1 = << >> /\ k2 # << >>
  ELSE \/ k1[1] < k2[1]
       \/ (k1[1] = k2[1] /\ tuple_less(Tail(k1), Tail(k2)))

\* sorted(xs, key=...): keys[x] is the key tuple of element x.  Python's sort is
\* stable: elements with equal keys keep the order they have in xs.
StableSort(xs, keys) ==
  LET n == Len(xs)
      rank(i) == 1 + Cardinality({j \in 1..n :
                       \/ tuple_less(keys[xs[j]], keys[xs[i]])
                       \/ (~tuple_less(keys[xs[i]], keys[xs[j]]) /\ j < i)})
  IN [r \in 1..n |-> xs[CHOOSE i \in 1..n : rank(i) = r]]

\* [i for i in 1..n if i in keep], in list order
IndicesWhere(n, keep) ==
  LET Kept(i) == i \in keep
  IN SelectSeq([i \in 1..n |-> i], Kept)

has_deadline(i) == ~IsNone(tasks[i].deadline)
no_deadline(i) == IsNone(tasks[i].deadline)
tasks_with_deadline == IndicesWhere(Len(tasks), {i \in 1..Len(tasks) : has_deadline(i)})
tasks_without_deadline == IndicesWhere(Len(tasks), {i \in 1..Len(tasks) : no_deadline(i)})

\* The order in which sorted() reads the key of each task.
key_order ==
  IF algorithm = "EDF" THEN tasks_with_deadline \o tasks_without_deadline
  ELSE IndicesWhere(Len(tasks), 1..Len(tasks))

\* Mutant: the EDF key without its priority component.
edf_key_deadline_only(t) == <<Val(tasks[t].deadline)>>

\* key=lambda t: (t.deadline, -t.calculated_priority)
edf_key(t) == <<Val(tasks[t].deadline), -sort_keys[t]>>

\* Mutant: the priority key without its minus sign (lowest priority first).
priority_key_ascending(t) == <<sort_keys[t]>>

\* key=lambda t: -t.calculated_priority
priority_key(t) == <<-sort_keys[t]>>

edf_sorted_tasks ==
  StableSort(tasks_with_deadline, [t \in 1..Len(tasks) |-> IF has_deadline(t) THEN edf_key(t) ELSE << >>])
    \o StableSort(tasks_without_deadline, [t \in 1..Len(tasks) |-> priority_key(t)])

hpf_sorted_tasks ==
  StableSort(IndicesWhere(Len(tasks), 1..Len(tasks)), [t \in 1..Len(tasks) |-> priority_key(t)])

\* Mutant: every block that is not reserved counts as available.
is_available_unless_reserved(i) == time_blocks[i].status # "reserved"

is_available(i) == time_blocks[i].status = "available"

\* key=lambda b: b.start_time
start_key(b) == <<time_blocks[b].start_time>>

\* sorted([b for b in time_blocks if b.status == 'available'], key=lambda b: b.start_time)
sorted_available_blocks ==
  StableSort(IndicesWhere(Len(time_blocks), {i \in 1..Len(time_blocks) : is_available(i)}),
             [b \in 1..Len(time_blocks) |-> start_key(b)])

\* The test "task fits in this block" of both loops.
task_fits(task, block) ==
  /\ duration_minutes(block) >= task.estimated_duration_minutes
  /\ (~Truthy(block.min_task_duration_minutes)
        \/ task.estimated_duration_minutes >= Val(block.min_task_duration_minutes))
  /\ (~Truthy(block.max_task_duration_minutes)
        \/ task.estimated_duration_minutes <= Val(block.max_task_duration_minutes))

\* Positions of the working list whose block passes the test.
fitting_positions(task) ==
  {p \in 1..Len(available_blocks) : task_fits(task, time_blocks[available_blocks[p]])}

\* Mutant: the scan keeps the last block that passes the test.
edf_pick_last(task) == MaxOf(fitting_positions(task))

\* for block in available_blocks: if fits: ...; break
edf_pick(task) == MinOf(fitting_positions(task))

scheduled_start_time(block) == block.start_time
\* Mutant: the decision ends where the block ends.
scheduled_end_time_block_end(block, task) == block.end_time

scheduled_end_time(block, task) == block.start_time + task.estimated_duration_minutes

\* Mutant: the comparison is strict.
takes_entire_block_strict(task, block) ==
  task.estimated_duration_minutes > duration_minutes(block)

takes_entire_block(task, block) ==
  task.estimated_duration_minutes >= duration_minutes(block)

\* available_blocks.remove(block)
list_remove(list, b) ==
  LET p == MinOf({i \in 1..Len(list) : list[i] = b})
  IN SubSeq(list, 1, p - 1) \o SubSeq(list, p + 1, Len(list))

\* Mutant: the tally is raised on every iteration.
count_unscheduled_always(count, scheduled) == count + 1

\* Mutant: a task that finds no block is not tallied.
count_unscheduled_never(count, scheduled) == count

count_unscheduled(count, scheduled) == IF ~scheduled THEN count + 1 ELSE count

(***************************************************************************)
(* HPF block score.  block_score = priority*0.4 + efficiency*0.3 +         *)
(* timing_score*0.2 + importance_weight*0.1 is held as                     *)
(* (whole + 30000 * task_minutes / block_minutes) / 100000.                *)
(***************************************************************************)
block_score(task, block, priority) ==
  [whole |-> 4 * priority + 20000 + 1000 * block.importance_weight,
   task_minutes |-> task.estimated_duration_minutes,
   block_minutes |-> duration_minutes(block)]

\* best_score = -1
initial_best_score == [whole |-> -100000, task_minutes |-> 0, block_minutes |-> 1]

\* Mutant: the comparison also replaces the best block on an equal score.
score_greater_or_equal(s, best) ==
  (s.whole - best.whole) * s.block_minutes * best.block_minutes
    + 30000 * (s.task_minutes * best.block_minutes - best.task_minutes * s.block_minutes) >= 0

\* block_score > best_score
score_greater(s, best) ==
  (s.whole - best.whole) * s.block_minutes * best.block_minutes
    + 30000 * (s.task_minutes * best.block_minutes - best.task_minutes * s.block_minutes) > 0

\* The inner loop of run_hpf_scheduling from position p of the working list on:
\* the pair <<best_block, best_score>> it ends with (best_block 0 is None).
RECURSIVE hpf_scan(_, _, _, _, _)
hpf_scan(task, priority, p, best_block, best_score) ==
  IF p > Len(available_blocks) THEN <<best_block, best_score>>
  ELSE LET b == available_blocks[p]
           score == block_score(task, time_blocks[b], priority)
       IN IF task_fits(task, time_blocks[b]) /\ score_greater(score, best_score)
          THEN hpf_scan(task, priority, p + 1, b, score)
          ELSE hpf_scan(task, priority, p + 1, best_block, best_score)

hpf_pick(task, priority) == hpf_scan(task, priority, 1, 0, initial_best_score)

(***************************************************************************)
(* The run                                                                 *)
(***************************************************************************)
Init ==
  /\ tasks \in ListsUpTo(TaskPool, MaxTasks)
  /\ time_blocks \in ListsUpTo(BlockPool, MaxBlocks)
  /\ time_blocks_at_start = time_blocks
  /\ algorithm \in {"EDF", "HPF"}
  /\ now = 0
  /\ pc = "call"
  /\ scheduling_run = << >>
  /\ sort_keys = << >>
  /\ sorted_tasks = << >>
  /\ available_blocks = << >>
  /\ scheduled_tasks = 0
  /\ unscheduled_tasks = 0
  /\ decisions = << >>
  /\ total_priority_score = 0
  /\ iteration = 0
  /\ attempts = << >>
  /\ result = << >>
  /\ other_run = << >>
  /\ alone_run = << >>
  /\ context = new_context
  /\ response = << >>
  /\ last_input = << >>
  /\ proposed_task = << >>

\* timezone.now() moves on between any two steps of a run.
Tick ==
  /\ pc \in {"call", "sort", "loop"}
  /\ now < MaxNow
  /\ now' = now + 1
  /\ UNCHANGED <<other_run, alone_run, context, response, last_input, proposed_task>>
  /\ UNCHANGED <<tasks, time_blocks, time_blocks_at_start, algorithm, pc, scheduling_run,
                 sort_keys, sorted_tasks, available_blocks, scheduled_tasks,
                 unscheduled_tasks, decisions, total_priority_score, iteration, attempts, result>>

\* SchedulingRun.objects.create(...): min() and max() of an empty block list raise
\* ValueError before the record exists and outside the try.
CreateRun ==
  /\ pc = "call"
  /\ IF time_blocks = << >>
     THEN /\ pc' = "raised"
          /\ UNCHANGED scheduling_run
     ELSE /\ pc' = "sort"
          /\ scheduling_run' =
               <<[algorithm_used |-> algorithm,
                  scheduling_window_start |->
                    MinOf({time_blocks[i].start_time : i \in 1..Len(time_blocks)}),
                  scheduling_window_end |->
                    MaxOf({time_blocks[i].end_time : i \in 1..Len(time_blocks)}),
                  tasks_considered |-> Len(tasks),
                  time_blocks_available |->
                    Cardinality({i \in 1..Len(time_blocks) : is_available(i)}),
                  status |-> "running"]>>
  /\ UNCHANGED <<other_run, alone_run, context, response, last_input, proposed_task>>
  /\ UNCHANGED <<tasks, time_blocks, time_blocks_at_start, algorithm, now, sort_keys,
                 sorted_tasks, available_blocks, scheduled_tasks, unscheduled_tasks,
                 decisions, total_priority_score, iteration, attempts, result>>

\* sorted() reads the key of the next task: one read of calculated_priority.
EvalSortKey ==
  /\ pc = "sort"
  /\ Cardinality(DOMAIN sort_keys) < Len(tasks)
  /\ LET t == key_order[Cardinality(DOMAIN sort_keys) + 1]
     IN sort_keys' = [i \in DOMAIN sort_keys \cup {t} |->
                        IF i = t THEN calculated_priority(tasks[t], now) ELSE sort_keys[i]]
  /\ UNCHANGED <<other_run, alone_run, context, response, last_input, proposed_task>>
  /\ UNCHANGED <<tasks, time_blocks, time_blocks_at_start, algorithm, now, pc,
                 scheduling_run, sorted_tasks, available_blocks, scheduled_tasks,
                 unscheduled_tasks, decisions, total_priority_score, iteration, attempts, result>>

\* The keys are read: the task order and the working list are built.
BuildWorkingList ==
  /\ pc = "sort"
  /\ Cardinality(DOMAIN sort_keys) = Len(tasks)
  /\ sorted_tasks' = IF algorithm = "EDF" THEN edf_sorted_tasks ELSE hpf_sorted_tasks
  /\ available_blocks' = sorted_available_blocks
  /\ scheduled_tasks' = 0
  /\ unscheduled_tasks' = 0
  /\ decisions' = << >>
  /\ total_priority_score' = 0
  /\ pc' = "loop"
  /\ UNCHANGED <<other_run, alone_run, context, response, last_input, proposed_task>>
  /\ UNCHANGED <<tasks, time_blocks, time_blocks_at_start, algorithm, now, scheduling_run,
                 sort_keys, iteration, attempts, result>>

\* Division by block.duration_minutes (efficiency) raises ZeroDivisionError on a
\* block of no duration; the except clause then marks the run failed.
raises_in_loop(block) == duration_minutes(block) = 0

\* Mutant: the except clause records the message but not the status.
failed_run_still_running(message) == <<scheduling_run[1] @@ [error_message |-> message]>>

failed_run(message) == <<[scheduling_run[1] EXCEPT !.status = "failed"] @@ [error_message |-> message]>>

failure_result(message) ==
  <<[success |-> FALSE, error |-> message, scheduling_run_id |-> 1]>>

\* Mutant: the list is rebound to the new decision alone.
append_decision_alone(list, decision) == <<decision>>

\* decisions.append(decision)
append_decision(list, decision) == Append(list, decision)

\* The block object after a task was placed in it by run_edf_scheduling.
edf_block_after(task, block) ==
  IF takes_entire_block(task, block)
  THEN [block EXCEPT !.status = "occupied"]
  ELSE IF task.can_be_split /\ block.can_be_split
            /\ block.start_time + task.estimated_duration_minutes < block.end_time
       THEN [block EXCEPT !.end_time = block.start_time + task.estimated_duration_minutes]
       ELSE block

\* The block object after a task was placed in it by run_hpf_scheduling.
hpf_block_after(task, block) ==
  IF takes_entire_block(task, block)
  THEN [block EXCEPT !.status = "occupied"]
  ELSE block

\* The working list after a task was placed in block b (either algorithm).
working_list_after(task, b) ==
  IF takes_entire_block(task, time_blocks[b])
  THEN list_remove(available_blocks, b)
  ELSE available_blocks

\* deadline_urgency = max(0, 100 - hours until the deadline from the block's start),
\* in sixtieths.
deadline_urgency(task, block) ==
  IF IsNone(task.deadline) THEN 0
  ELSE LET sixtieths == 6000 - (Val(task.deadline) - block.start_time)
       IN IF sixtieths > 0 THEN sixtieths ELSE 0

\* One iteration of "for task in sorted_tasks" in run_edf_scheduling.
EdfScheduleTask ==
  /\ pc = "loop"
  /\ algorithm = "EDF"
  /\ iteration < Len(sorted_tasks)
  /\ LET t == sorted_tasks[iteration + 1]
         task == tasks[t]
         scheduled == fitting_positions(task) # {}
         b == IF scheduled THEN available_blocks[edf_pick(task)] ELSE 0
     IN /\ attempts' = Append(attempts, [task |-> t, block |-> b,
                                         working |-> available_blocks,
                                         blocks |-> time_blocks,
                                         priority |-> calculated_priority(task, now),
                                         at |-> now])
        /\ IF scheduled /\ raises_in_loop(time_blocks[b])
           THEN /\ scheduling_run' = failed_run("division by zero")
                /\ result' = failure_result("EDF scheduling failed: division by zero")
                /\ pc' = "done"
                /\ UNCHANGED <<time_blocks, available_blocks, decisions, scheduled_tasks,
                               unscheduled_tasks, iteration>>
           ELSE /\ IF scheduled
                   THEN LET block == time_blocks[b]
                        IN /\ decisions' = append_decision(decisions,
                                [task |-> t,
                                 time_block |-> b,
                                 scheduled_start_time |-> scheduled_start_time(block),
                                 scheduled_end_time |-> scheduled_end_time(block, task),
                                 priority_score |-> calculated_priority(task, now),
                                 deadline_urgency_score |-> deadline_urgency(task, block),
                                 efficiency_score |->
                                   <<task.estimated_duration_minutes * 100, duration_minutes(block)>>,
                                 confidence_level |-> 80])
                           /\ time_blocks' = [time_blocks EXCEPT ![b] = edf_block_after(task, block)]
                           /\ available_blocks' = working_list_after(task, b)
                           /\ scheduled_tasks' = scheduled_tasks + 1
                   ELSE UNCHANGED <<decisions, time_blocks, available_blocks, scheduled_tasks>>
                /\ unscheduled_tasks' = count_unscheduled(unscheduled_tasks, scheduled)
                /\ iteration' = iteration + 1
                /\ UNCHANGED <<pc, scheduling_run, result>>
  /\ UNCHANGED <<other_run, alone_run, context, response, last_input, proposed_task>>
  /\ UNCHANGED <<tasks, time_blocks_at_start, algorithm, now, sort_keys, sorted_tasks,
                 total_priority_score>>

\* One iteration of "for task in sorted_tasks" in run_hpf_scheduling; the iteration
\* reads calculated_priority at one instant.
HpfScheduleTask ==
  /\ pc = "loop"
  /\ algorithm = "HPF"
  /\ iteration < Len(sorted_tasks)
  /\ LET t == sorted_tasks[iteration + 1]
         task == tasks[t]
         priority == calculated_priority(task, now)
         raises == \E p \in fitting_positions(task) :
                     raises_in_loop(time_blocks[available_blocks[p]])
         best == IF raises THEN <<0, initial_best_score>> ELSE hpf_pick(task, priority)
         best_block == best[1]
         best_score == best[2]
         scheduled == best_block # 0
     IN /\ attempts' = Append(attempts, [task |-> t, block |-> best_block,
                                         working |-> available_blocks,
                                         blocks |-> time_blocks,
                                         priority |-> priority,
                                         at |-> now])
        /\ IF raises
           THEN /\ scheduling_run' = failed_run("division by zero")
                /\ result' = failure_result("HPF scheduling failed: division by zero")
                /\ pc' = "done"
                /\ UNCHANGED <<time_blocks, available_blocks, decisions, scheduled_tasks,
                               unscheduled_tasks, total_priority_score, iteration>>
           ELSE /\ IF scheduled
                   THEN LET block == time_blocks[best_block]
                        IN /\ decisions' = append_decision(decisions,
                                [task |-> t,
                                 time_block |-> best_block,
                                 scheduled_start_time |-> scheduled_start_time(block),
                                 scheduled_end_time |-> scheduled_end_time(block, task),
                                 priority_score |-> priority,
                                 efficiency_score |-> best_score,
                                 confidence_level |-> 85])
                           /\ time_blocks' =
                                [time_blocks EXCEPT ![best_block] = hpf_block_after(task, block)]
                           /\ available_blocks' = working_list_after(task, best_block)
                           /\ scheduled_tasks' = scheduled_tasks + 1
                           /\ total_priority_score' = total_priority_score + priority
                   ELSE UNCHANGED <<decisions, time_blocks, available_blocks, scheduled_tasks,
                                    total_priority_score>>
                /\ unscheduled_tasks' = count_unscheduled(unscheduled_tasks, scheduled)
                /\ iteration' = iteration + 1
                /\ UNCHANGED <<pc, scheduling_run, result>>
  /\ UNCHANGED <<other_run, alone_run, context, response, last_input, proposed_task>>
  /\ UNCHANGED <<tasks, time_blocks_at_start, algorithm, now, sort_keys, sorted_tasks>>

\* Mutant: a deadline equal to the instant of the count is a violation too.
deadline_violations_inclusive ==
  Cardinality({i \in 1..Len(sorted_tasks) :
                 /\ ~IsNone(tasks[sorted_tasks[i]].deadline)
                 /\ Val(tasks[sorted_tasks[i]].deadline) <= now})

\* sum(1 for task in sorted_tasks if task.deadline and task.deadline < timezone.now())
deadline_violations ==
  Cardinality({i \in 1..Len(sorted_tasks) :
                 /\ ~IsNone(tasks[sorted_tasks[i]].deadline)
                 /\ Val(tasks[sorted_tasks[i]].deadline) < now})

\* Mutant: the quotient is taken without testing the task list.
schedule_efficiency_score_unguarded == <<scheduled_tasks * 100, Len(tasks)>>

\* scheduled_tasks / len(tasks) * 100 if tasks else 0, as a fraction
schedule_efficiency_score ==
  IF Len(tasks) # 0 THEN <<scheduled_tasks * 100, Len(tasks)>> ELSE <<0, 1>>

\* The end of run_edf_scheduling: metrics, status completed, the result.
EdfFinalize ==
  /\ pc = "loop"
  /\ algorithm = "EDF"
  /\ iteration = Len(sorted_tasks)
  /\ scheduling_run' =
       <<[scheduling_run[1] EXCEPT !.status = "completed"] @@
         [tasks_scheduled |-> scheduled_tasks,
          tasks_unscheduled |-> unscheduled_tasks,
          deadline_violations |-> deadline_violations,
          schedule_efficiency_score |-> schedule_efficiency_score,
          deadline_compliance_rate |->
            IF Len(tasks) # 0
            THEN <<(Len(tasks) - deadline_violations) * 100, Len(tasks)>>
            ELSE <<100, 1>>]>>
  /\ result' = <<[success |-> TRUE, algorithm |-> "EDF", scheduling_run_id |-> 1,
                  tasks_scheduled |-> scheduled_tasks,
                  tasks_unscheduled |-> unscheduled_tasks,
                  deadline_violations |-> deadline_violations,
                  efficiency_score |-> schedule_efficiency_score,
                  decisions |-> decisions]>>
  /\ pc' = "done"
  /\ UNCHANGED <<other_run, alone_run, context, response, last_input, proposed_task>>
  /\ UNCHANGED <<tasks, time_blocks, time_blocks_at_start, algorithm, now, sort_keys,
                 sorted_tasks, available_blocks, scheduled_tasks, unscheduled_tasks,
                 decisions, total_priority_score, iteration, attempts>>

\* total_priority_score / scheduled_tasks if scheduled_tasks > 0 else 0, as a fraction
average_priority ==
  IF scheduled_tasks > 0 THEN <<total_priority_score, scheduled_tasks>> ELSE <<0, 1>>

\* The end of run_hpf_scheduling.
HpfFinalize ==
  /\ pc = "loop"
  /\ algorithm = "HPF"
  /\ iteration = Len(sorted_tasks)
  /\ scheduling_run' =
       <<[scheduling_run[1] EXCEPT !.status = "completed"] @@
         [tasks_scheduled |-> scheduled_tasks,
          tasks_unscheduled |-> unscheduled_tasks,
          average_priority_score |-> average_priority,
          schedule_efficiency_score |-> schedule_efficiency_score]>>
  /\ result' = <<[success |-> TRUE, algorithm |-> "HPF", scheduling_run_id |-> 1,
                  tasks_scheduled |-> scheduled_tasks,
                  tasks_unscheduled |-> unscheduled_tasks,
                  average_priority_score |-> average_priority,
                  efficiency_score |-> schedule_efficiency_score,
                  decisions |-> decisions]>>
  /\ pc' = "done"
  /\ UNCHANGED <<other_run, alone_run, context, response, last_input, proposed_task>>
  /\ UNCHANGED <<tasks, time_blocks, time_blocks_at_start, algorithm, now, sort_keys,
                 sorted_tasks, available_blocks, scheduled_tasks, unscheduled_tasks,
                 decisions, total_priority_score, iteration, attempts>>

Next ==
  \/ Tick
  \/ CreateRun
  \/ EvalSortKey
  \/ BuildWorkingList
  \/ EdfScheduleTask
  \/ HpfScheduleTask
  \/ EdfFinalize
  \/ HpfFinalize

Spec == Init /\ [][Next]_vars

(***************************************************************************)
(* Properties                                                              *)
(***************************************************************************)
Completed ==
  /\ pc = "done"
  /\ scheduling_run # << >>
  /\ scheduling_run[1].status = "completed"

Placed(e) == e.block # 0
TaskOf(e) == tasks[e.task]
\* The chosen block as the iteration found it.
BlockSeen(e) == e.blocks[e.block]
Deadline(i) == Val(tasks[i].deadline)
AttemptedTasks == {attempts[i].task : i \in 1..Len(attempts)}
AttemptOf(t) == CHOOSE i \in 1..Len(attempts) : attempts[i].task = t
DecidedTasks == {decisions[i].task : i \in 1..Len(decisions)}
DecisionOf(t) == CHOOSE i \in 1..Len(decisions) : decisions[i].task = t

\* C1: in every completed run of either algorithm, tasks_scheduled plus
\* tasks_unscheduled equals tasks_considered, the number of tasks passed in.
C1_CountsAddUp ==
  Completed =>
    /\ scheduling_run[1].tasks_scheduled + scheduling_run[1].tasks_unscheduled
         = scheduling_run[1].tasks_considered
    /\ result[1].tasks_scheduled + result[1].tasks_unscheduled = Len(tasks)

C1_Witness ==
  /\ Completed
  /\ scheduling_run[1].tasks_scheduled >= 1
  /\ scheduling_run[1].tasks_unscheduled >= 1

\* C2: run_edf_scheduling attempts every deadline-bearing task before every
\* deadline-less one, deadline-bearing tasks by ascending deadline and, on equal
\* deadlines, by descending calculated_priority (the value its sort key read),
\* deadline-less tasks by descending calculated_priority; a task with an earlier
\* deadline is attempted, and its decision recorded, before a task with a later
\* deadline is considered.
C2_EdfOrder ==
  algorithm = "EDF" =>
    /\ \A i, j \in 1..Len(attempts) : i < j =>
         LET a == attempts[i].task
             b == attempts[j].task
         IN /\ no_deadline(a) => no_deadline(b)
            /\ (has_deadline(a) /\ has_deadline(b)) =>
                 /\ Deadline(a) <= Deadline(b)
                 /\ Deadline(a) = Deadline(b) => sort_keys[a] >= sort_keys[b]
            /\ (no_deadline(a) /\ no_deadline(b)) => sort_keys[a] >= sort_keys[b]
    /\ \A a, b \in 1..Len(tasks) :
         (has_deadline(a) /\ has_deadline(b) /\ Deadline(a) < Deadline(b)
            /\ b \in AttemptedTasks) =>
           /\ a \in AttemptedTasks
           /\ AttemptOf(a) < AttemptOf(b)
           /\ (a \in DecidedTasks /\ b \in DecidedTasks) => DecisionOf(a) < DecisionOf(b)

\* Two tasks with the same deadline were passed in ascending priority and are
\* attempted in descending priority.
C2_Witness ==
  /\ algorithm = "EDF"
  /\ Len(attempts) = 2
  /\ has_deadline(1) /\ has_deadline(2)
  /\ Deadline(1) = Deadline(2)
  /\ sort_keys[1] < sort_keys[2]
  /\ attempts[1].task = 2

\* C3: run_hpf_scheduling attempts tasks in non-increasing calculated_priority
\* (the value its sort key read): no task is attempted before a task of strictly
\* higher priority, and tasks of equal priority keep their input order.
C3_HpfOrder ==
  algorithm = "HPF" =>
    /\ \A i, j \in 1..Len(attempts) : i < j =>
         LET a == attempts[i].task
             b == attempts[j].task
         IN /\ sort_keys[a] >= sort_keys[b]
            /\ sort_keys[a] = sort_keys[b] => a < b
    /\ \A a, b \in 1..Len(tasks) :
         (b \in AttemptedTasks /\ sort_keys[a] > sort_keys[b]) =>
           (a \in AttemptedTasks /\ AttemptOf(a) < AttemptOf(b))

C3_Witness ==
  /\ algorithm = "HPF"
  /\ Len(attempts) = 2
  /\ sort_keys[1] < sort_keys[2]
  /\ attempts[1].task = 2

\* C4: every decision of either algorithm starts no earlier than the start its
\* block had when the run began, and lasts the task's estimated_duration_minutes.
C4_DecisionTimes ==
  \A i \in 1..Len(decisions) :
    LET d == decisions[i]
    IN /\ d.scheduled_start_time >= time_blocks_at_start[d.time_block].start_time
       /\ d.scheduled_end_time - d.scheduled_start_time
            = tasks[d.task].estimated_duration_minutes

\* A task was placed in a block longer than the task.
C4_Witness ==
  \E i \in 1..Len(decisions) :
    tasks[decisions[i].task].estimated_duration_minutes
      < duration_minutes(time_blocks_at_start[decisions[i].time_block])

\* C5: after a splittable task of duration D is placed in a splittable block of
\* duration B > D, the working list holds a block starting at original_start + D
\* of duration B - D, and no block with the original full span.
C5_SplitLeavesRemainder ==
  (Len(attempts) > 0 /\ iteration = Len(attempts)) =>
    LET e == attempts[Len(attempts)]
        D == TaskOf(e).estimated_duration_minutes
    IN (Placed(e) /\ TaskOf(e).can_be_split /\ BlockSeen(e).can_be_split
          /\ duration_minutes(BlockSeen(e)) > D) =>
         /\ \E p \in 1..Len(available_blocks) :
              /\ time_blocks[available_blocks[p]].start_time = BlockSeen(e).start_time + D
              /\ duration_minutes(time_blocks[available_blocks[p]])
                   = duration_minutes(BlockSeen(e)) - D
         /\ ~\E p \in 1..Len(available_blocks) :
              /\ time_blocks[available_blocks[p]].start_time = BlockSeen(e).start_time
              /\ time_blocks[available_blocks[p]].end_time = BlockSeen(e).end_time

\* C6: when a run has returned, every block object the caller passed has the
\* start_time, end_time and status it had before the call.
C6_CallerBlocksUnchanged ==
  pc = "done" =>
    \A i \in 1..Len(time_blocks) :
      /\ time_blocks[i].start_time = time_blocks_at_start[i].start_time
      /\ time_blocks[i].end_time = time_blocks_at_start[i].end_time
      /\ time_blocks[i].status = time_blocks_at_start[i].status

\* C7: a block in which a task at least as long as the block was placed is marked
\* occupied, is gone from the working list, and no later task of the run is
\* placed in it.
C7_FullConsumption ==
  \A i \in 1..Len(attempts) :
    LET e == attempts[i]
    IN (Placed(e) /\ TaskOf(e).estimated_duration_minutes >= duration_minutes(BlockSeen(e))
          /\ iteration >= i) =>
         /\ time_blocks[e.block].status = "occupied"
         /\ \A p \in 1..Len(available_blocks) : available_blocks[p] # e.block
         /\ \A j \in (i + 1)..Len(attempts) :
              /\ attempts[j].block # e.block
              /\ \A p \in 1..Len(attempts[j].working) : attempts[j].working[p] # e.block

\* A block was fully consumed and a later task that would have fitted it was attempted.
C7_Witness ==
  \E i, j \in 1..Len(attempts) :
    /\ i < j
    /\ Placed(attempts[i])
    /\ TaskOf(attempts[i]).estimated_duration_minutes
         >= duration_minutes(BlockSeen(attempts[i]))
    /\ task_fits(TaskOf(attempts[j]), BlockSeen(attempts[i]))

\* C8: a task is placed only in a block whose current duration is at least the
\* task's estimated duration and, where the block declares a minimum or maximum
\* task duration, only if the task's duration lies within it.
C8_PlacementsFeasible ==
  \A i \in 1..Len(attempts) :
    LET e == attempts[i]
        D == TaskOf(e).estimated_duration_minutes
    IN Placed(e) =>
         /\ duration_minutes(BlockSeen(e)) >= D
         /\ ~IsNone(BlockSeen(e).min_task_duration_minutes) =>
              D >= Val(BlockSeen(e).min_task_duration_minutes)
         /\ ~IsNone(BlockSeen(e).max_task_duration_minutes) =>
              D <= Val(BlockSeen(e).max_task_duration_minutes)

\* C9: a task with preferred hours is never placed in a block whose start hour is
\* outside the range of those hours, and a task with avoided hours never in a
\* block starting at one of them.
C9_TimeOfDayRespected ==
  \A i \in 1..Len(attempts) :
    LET e == attempts[i]
    IN Placed(e) =>
         /\ preferred_time_ok(TaskOf(e), BlockSeen(e))
         /\ avoid_time_ok(TaskOf(e), BlockSeen(e))

\* The blocks of the working list that pass the fit test for the task of e.
CandidatesSeen(e) ==
  {e.working[p] : p \in {q \in 1..Len(e.working) : task_fits(TaskOf(e), e.blocks[e.working[q]])}}

\* C10: the block run_edf_scheduling chooses for a task is a block of the working
\* list that passes the fit test, no such block starts earlier, and a task is left
\* unplaced only if no block passes.
C10_EdfFirstFit ==
  algorithm = "EDF" =>
    \A i \in 1..Len(attempts) :
      LET e == attempts[i]
      IN /\ Placed(e) <=> CandidatesSeen(e) # {}
         /\ Placed(e) =>
              /\ e.block \in CandidatesSeen(e)
              /\ \A c \in CandidatesSeen(e) :
                   e.blocks[c].start_time >= BlockSeen(e).start_time

\* Two blocks that start at different times passed the test, the later one first
\* in the caller's list, and the earlier one was chosen.
C10_Witness ==
  /\ algorithm = "EDF"
  /\ \E i \in 1..Len(attempts) :
       LET e == attempts[i]
       IN /\ Placed(e)
          /\ \E c \in CandidatesSeen(e) :
               /\ e.blocks[c].start_time > BlockSeen(e).start_time
               /\ c < e.block

\* The block_score the scan of iteration e computed for block c.
ScoreSeen(e, c) == block_score(TaskOf(e), e.blocks[c], e.priority)

PriorityDeadlines ==
  { None, Some(-120), Some(0), Some(1), Some(24 * 60), Some(24 * 60 + 1),
    Some(168 * 60), Some(168 * 60 + 1), Some(168 * 60 + 2) }

PriorityTasks ==
  { [name |-> "task", estimated_duration_minutes |-> 30, deadline |-> d,
     base_priority |-> b, urgency_multiplier |-> u, category |-> c,
     can_be_split |-> FALSE, preferred_time_of_day |-> << >>, avoid_time_of_day |-> << >>] :
    d \in PriorityDeadlines, b \in {1, 3, 5}, u \in {50, 100, 300},
    c \in {None, Some([category_weight |-> 50]), Some([category_weight |-> 200])} }

PriorityBlock ==
  [start_time |-> 0, end_time |-> 60, status |-> "available", can_be_split |-> FALSE,
   min_task_duration_minutes |-> None, max_task_duration_minutes |-> None,
   importance_weight |-> 10]

InitPriority ==
  /\ tasks \in { <<task>> : task \in PriorityTasks }
  /\ time_blocks = <<PriorityBlock>>
  /\ time_blocks_at_start = time_blocks
  /\ algorithm \in {"EDF", "HPF"}
  /\ now = 0
  /\ pc = "call"
  /\ scheduling_run = << >>
  /\ sort_keys = << >>
  /\ sorted_tasks = << >>
  /\ available_blocks = << >>
  /\ scheduled_tasks = 0
  /\ unscheduled_tasks = 0
  /\ decisions = << >>
  /\ total_priority_score = 0
  /\ iteration = 0
  /\ attempts = << >>
  /\ result = << >>
  /\ other_run = << >>
  /\ alone_run = << >>
  /\ context = new_context
  /\ response = << >>
  /\ last_input = << >>
  /\ proposed_task = << >>

SpecPriority == InitPriority /\ [][Next]_vars

\* The deadline factor as the tiers are stated, in hours from instant t.
TierFactor(task, t) ==
  CASE IsNone(task.deadline) -> 1
    [] ~IsNone(task.deadline) /\ Val(task.deadline) <= t -> 5
    [] ~IsNone(task.deadline) /\ Val(task.deadline) > t
         /\ Val(task.deadline) <= t + 24 * 60 -> 3
    [] ~IsNone(task.deadline) /\ Val(task.deadline) > t + 24 * 60
         /\ Val(task.deadline) <= t + 168 * 60 -> 2
    [] OTHER -> 1

\* C12: every value calculated_priority returns (in units of 1/10000) is
\* base_priority x urgency_multiplier x deadline factor x category weight, the
\* factor being 1 without a deadline, 5 once the deadline is reached, 3 up to and
\* including 24 hours ahead, 2 up to and including 168 hours ahead and 1 beyond,
\* and the weight 1.0 without a category; a task 2 hours overdue with base 3,
\* multiplier 1.0 and no category gets 15.
C12_PriorityFormula ==
  /\ \A i \in 1..Len(attempts) :
       LET e == attempts[i]
           task == TaskOf(e)
           weight == IF IsNone(task.category) THEN 100 ELSE Val(task.category).category_weight
       IN /\ e.priority = task.base_priority * task.urgency_multiplier
                            * TierFactor(task, e.at) * weight
          /\ (/\ task.deadline = Some(e.at - 120)
              /\ task.base_priority = 3
              /\ task.urgency_multiplier = 100
              /\ IsNone(task.category)) => e.priority = 15 * 10000
  /\ \A t \in DOMAIN sort_keys :
       \E at \in 0..now :
         sort_keys[t] = tasks[t].base_priority * tasks[t].urgency_multiplier
                          * TierFactor(tasks[t], at)
                          * (IF IsNone(tasks[t].category) THEN 100
                             ELSE Val(tasks[t].category).category_weight)

\* The overdue example was evaluated and gave 15.
C12_Witness ==
  \E i \in 1..Len(attempts) :
    LET e == attempts[i]
    IN /\ TaskOf(e).deadline = Some(e.at - 120)
       /\ TaskOf(e).base_priority = 3
       /\ TaskOf(e).urgency_multiplier = 100
       /\ IsNone(TaskOf(e).category)
       /\ e.priority = 150000

\* C13: within one run every evaluation of a task's calculated_priority gives
\* the same value: the value read for the task's sort key equals the value read
\* when the task is placed and stored as the priority_score of its decision.
C13_PriorityConsistent ==
  \A d \in 1..Len(decisions) :
    decisions[d].task \in DOMAIN sort_keys =>
      decisions[d].priority_score = sort_keys[decisions[d].task]

\* The iterations that ended without a placement.
Unplaced == {i \in 1..Len(attempts) : ~Placed(attempts[i])}

\* C15: a task for which no block of the working list passes the fit test is
\* tallied in tasks_unscheduled and gets no decision; the run does not fail or
\* raise, goes on to attempt the tasks after it and ends completed; one 60-minute
\* task with one 30-minute block ends with 0 scheduled and 1 unscheduled.
C15_InfeasibleIsNormal ==
  /\ \A i \in 1..Len(attempts) :
       CandidatesSeen(attempts[i]) = {} =>
         /\ i \in Unplaced
         /\ attempts[i].task \notin DecidedTasks
         /\ pc # "raised"
         /\ scheduling_run[1].status # "failed"
  /\ pc \in {"loop", "done"} => unscheduled_tasks = Cardinality(Unplaced)
  /\ pc = "done" =>
       /\ Completed
       /\ AttemptedTasks = 1..Len(tasks)
       /\ result[1].success
       /\ result[1].tasks_unscheduled = Cardinality(Unplaced)
  /\ (/\ pc = "done"
      /\ Len(tasks) = 1
      /\ tasks[1].estimated_duration_minutes = 60
      /\ Len(time_blocks_at_start) = 1
      /\ time_blocks_at_start[1].status = "available"
      /\ duration_minutes(time_blocks_at_start[1]) = 30) =>
       /\ result[1].tasks_scheduled = 0
       /\ result[1].tasks_unscheduled = 1
       /\ decisions = << >>

\* A completed run whose first attempted task found no block and whose second
\* was placed.
C15_Witness ==
  /\ Completed
  /\ Len(attempts) = 2
  /\ CandidatesSeen(attempts[1]) = {}
  /\ Placed(attempts[2])
  /\ result[1].tasks_scheduled = 1
  /\ result[1].tasks_unscheduled = 1

\* C16: a call with an empty block list does not raise; it returns a normal
\* result with tasks_scheduled = 0.
C16_EmptyBlocksLegal ==
  time_blocks_at_start = << >> =>
    /\ pc # "raised"
    /\ pc = "done" => /\ result[1].success
                      /\ result[1].tasks_scheduled = 0

\* C17: a call with no tasks and at least one block does not raise or fail; it
\* ends completed with schedule_efficiency_score 0 (a fraction 0/d, d # 0),
\* 0 scheduled and 0 unscheduled.
C17_NoTasks ==
  (tasks = << >> /\ time_blocks_at_start # << >>) =>
    /\ pc # "raised"
    /\ pc = "done" =>
         /\ Completed
         /\ result[1].success
         /\ result[1].efficiency_score[2] # 0
         /\ result[1].efficiency_score[1] = 0
         /\ scheduling_run[1].schedule_efficiency_score[2] # 0
         /\ scheduling_run[1].schedule_efficiency_score[1] = 0
         /\ result[1].tasks_scheduled = 0
         /\ result[1].tasks_unscheduled = 0
         /\ decisions = << >>

C17_Witness ==
  /\ tasks = << >>
  /\ time_blocks_at_start # << >>
  /\ Completed
  /\ result[1].efficiency_score = <<0, 1>>

(***************************************************************************)
(* Calls whose input the models accept but the scheduler's contract does   *)
(* not: estimated_duration_minutes is an IntegerField without validators,  *)
(* and nothing relates a block's end_time to its start_time.               *)
(***************************************************************************)
InvalidTaskPool ==
  { [name |-> "noop", estimated_duration_minutes |-> 0, deadline |-> None,
     base_priority |-> 3, urgency_multiplier |-> 100, category |-> None,
     can_be_split |-> TRUE, preferred_time_of_day |-> << >>, avoid_time_of_day |-> << >>],
    [name |-> "email", estimated_duration_minutes |-> 30, deadline |-> None,
     base_priority |-> 4, urgency_multiplier |-> 100, category |-> None,
     can_be_split |-> FALSE, preferred_time_of_day |-> << >>, avoid_time_of_day |-> << >>],
    [name |-> "report", estimated_duration_minutes |-> 30, deadline |-> Some(1),
     base_priority |-> 1, urgency_multiplier |-> 100, category |-> None,
     can_be_split |-> TRUE, preferred_time_of_day |-> << >>, avoid_time_of_day |-> << >>] }

InvalidBlockPool ==
  { [start_time |-> 30, end_time |-> 30, status |-> "available", can_be_split |-> TRUE,
     min_task_duration_minutes |-> None, max_task_duration_minutes |-> None,
     importance_weight |-> 10],
    [start_time |-> 90, end_time |-> 60, status |-> "available", can_be_split |-> FALSE,
     min_task_duration_minutes |-> None, max_task_duration_minutes |-> None,
     importance_weight |-> 10],
    [start_time |-> 0, end_time |-> 60, status |-> "available", can_be_split |-> TRUE,
     min_task_duration_minutes |-> None, max_task_duration_minutes |-> None,
     importance_weight |-> 10] }

InitInvalid ==
  /\ tasks \in ListsUpTo(InvalidTaskPool, MaxTasks)
  /\ time_blocks \in ListsUpTo(InvalidBlockPool, MaxBlocks)
  /\ time_blocks_at_start = time_blocks
  /\ algorithm \in {"EDF", "HPF"}
  /\ now = 0
  /\ pc = "call"
  /\ scheduling_run = << >>
  /\ sort_keys = << >>
  /\ sorted_tasks = << >>
  /\ available_blocks = << >>
  /\ scheduled_tasks = 0
  /\ unscheduled_tasks = 0
  /\ decisions = << >>
  /\ total_priority_score = 0
  /\ iteration = 0
  /\ attempts = << >>
  /\ result = << >>
  /\ other_run = << >>
  /\ alone_run = << >>
  /\ context = new_context
  /\ response = << >>
  /\ last_input = << >>
  /\ proposed_task = << >>

SpecInvalid == InitInvalid /\ [][Next]_vars

\* The iteration divided by the duration of a block of no duration.
Faulted(e) ==
  IF algorithm = "EDF"
  THEN Placed(e) /\ duration_minutes(BlockSeen(e)) = 0
  ELSE \E c \in CandidatesSeen(e) : duration_minutes(e.blocks[c]) = 0

\* C18: once the run record exists the call does not raise; a fault in the task
\* loop ends the run with status failed and an error message, and the call
\* returns success false with an error text and the run id and without a
\* decision list; no call returns with the record still running.
C18_FaultsCaught ==
  /\ pc = "raised" => scheduling_run = << >>
  /\ pc = "done" => scheduling_run[1].status \in {"completed", "failed"}
  /\ \A i \in 1..Len(attempts) :
       Faulted(attempts[i]) =>
         /\ i = Len(attempts)
         /\ pc = "done"
         /\ scheduling_run[1].status = "failed"
  /\ (scheduling_run # << >> /\ "error_message" \in DOMAIN scheduling_run[1]) =>
       scheduling_run[1].status = "failed"
  /\ (scheduling_run # << >> /\ scheduling_run[1].status = "failed") =>
       /\ pc = "done"
       /\ "error_message" \in DOMAIN scheduling_run[1]
       /\ result # << >>
       /\ result[1].success = FALSE
       /\ DOMAIN result[1] = {"success", "error", "scheduling_run_id"}

\* A run that completed one iteration and met the fault in the next.
C18_Witness ==
  /\ pc = "done"
  /\ scheduling_run[1].status = "failed"
  /\ result[1].success = FALSE
  /\ Len(attempts) = 2
  /\ Faulted(attempts[2])

\* The call was given a block that does not end after it starts or a task of
\* non-positive duration.
InvalidInput ==
  \/ \E b \in 1..Len(time_blocks_at_start) :
       time_blocks_at_start[b].end_time <= time_blocks_at_start[b].start_time
  \/ \E t \in 1..Len(tasks) : tasks[t].estimated_duration_minutes <= 0

\* C19: a call given a block with end <= start or a task of non-positive
\* duration is rejected before the run starts: no run record is created, no
\* decision is made and the task loop is not entered.
C19_InvalidInputRejected ==
  InvalidInput =>
    /\ scheduling_run = << >>
    /\ decisions = << >>
    /\ pc \notin {"sort", "loop"}

(***************************************************************************)
(* Two calls on one block list.  A call run_edf_scheduling(user, tasks,    *)
(* time_blocks) and a call run_hpf_scheduling(user, tasks, time_blocks)    *)
(* receive the same list of the same block objects; each has its own local *)
(* variables.  The variables of the module are those of the call taking    *)
(* steps, other_run holds those of the call that waits, and Switch hands   *)
(* the processor over.  Before the pair starts, one of the two algorithms  *)
(* is run by itself on blocks of its own and its outcome kept in           *)
(* alone_run.  The clock stands still, so that the calls differ in nothing *)
(* but the blocks they see.                                                *)
(***************************************************************************)
\* The local variables of the call taking steps.
run_locals ==
  [algorithm |-> algorithm, pc |-> pc, scheduling_run |-> scheduling_run,
   sort_keys |-> sort_keys, sorted_tasks |-> sorted_tasks,
   available_blocks |-> available_blocks, scheduled_tasks |-> scheduled_tasks,
   unscheduled_tasks |-> unscheduled_tasks, decisions |-> decisions,
   total_priority_score |-> total_priority_score, iteration |-> iteration,
   attempts |-> attempts, result |-> result]

\* The local variables of a call that has just been made.
new_call(algorithm_used) ==
  [algorithm |-> algorithm_used, pc |-> "call", scheduling_run |-> << >>,
   sort_keys |-> << >>, sorted_tasks |-> << >>, available_blocks |-> << >>,
   scheduled_tasks |-> 0, unscheduled_tasks |-> 0, decisions |-> << >>,
   total_priority_score |-> 0, iteration |-> 0, attempts |-> << >>, result |-> << >>]

\* The call whose local variables are r takes the steps from now on.
Resume(r) ==
  /\ algorithm' = r.algorithm
  /\ pc' = r.pc
  /\ scheduling_run' = r.scheduling_run
  /\ sort_keys' = r.sort_keys
  /\ sorted_tasks' = r.sorted_tasks
  /\ available_blocks' = r.available_blocks
  /\ scheduled_tasks' = r.scheduled_tasks
  /\ unscheduled_tasks' = r.unscheduled_tasks
  /\ decisions' = r.decisions
  /\ total_priority_score' = r.total_priority_score
  /\ iteration' = r.iteration
  /\ attempts' = r.attempts
  /\ result' = r.result

other_algorithm == IF algorithm = "EDF" THEN "HPF" ELSE "EDF"

\* The call on blocks of its own has ended; the caller now makes the two calls,
\* one per algorithm, passing both the same time_blocks list.
StartPair ==
  /\ alone_run = << >>
  /\ pc \in {"done", "raised"}
  /\ alone_run' = <<run_locals>>
  /\ time_blocks' = time_blocks_at_start
  /\ Resume(new_call(algorithm))
  /\ other_run' = <<new_call(other_algorithm)>>
  /\ UNCHANGED <<tasks, time_blocks_at_start, now, context, response, last_input,
                 proposed_task>>

\* The thread of the other call is scheduled.
Switch ==
  /\ other_run # << >>
  /\ other_run[1].pc \notin {"done", "raised"}
  /\ Resume(other_run[1])
  /\ other_run' = <<run_locals>>
  /\ UNCHANGED <<tasks, time_blocks, time_blocks_at_start, now, alone_run, context,
                 response, last_input, proposed_task>>

NextConcurrent ==
  \/ CreateRun
  \/ EvalSortKey
  \/ BuildWorkingList
  \/ EdfScheduleTask
  \/ HpfScheduleTask
  \/ EdfFinalize
  \/ HpfFinalize
  \/ StartPair
  \/ Switch

SpecConcurrent == Init /\ [][NextConcurrent]_vars

\* The two calls of the pair, once it has started.
PairRuns == IF other_run = << >> THEN {} ELSE {run_locals, other_run[1]}

\* C20: of an EDF call and an HPF call made on the same block list and
\* interleaved in any order, the one whose algorithm was also run by itself ends
\* with the decisions, the counts and the result it had when run by itself.
C20_RunsIndependent ==
  \A r \in PairRuns :
    (r.algorithm = alone_run[1].algorithm /\ r.pc \in {"done", "raised"}) =>
      /\ r.pc = alone_run[1].pc
      /\ r.decisions = alone_run[1].decisions
      /\ r.scheduled_tasks = alone_run[1].scheduled_tasks
      /\ r.unscheduled_tasks = alone_run[1].unscheduled_tasks
      /\ r.result = alone_run[1].result

\* The tasks passed in whose deadline lies before instant t.
OverdueAt(t) ==
  {i \in 1..Len(tasks) : ~IsNone(tasks[i].deadline) /\ Val(tasks[i].deadline) < t}

AvailableAtStart ==
  {b \in 1..Len(time_blocks_at_start) : time_blocks_at_start[b].status = "available"}

\* The list holds distinct blocks in ascending order of start.
AscendingByStart(list) ==
  \A p, q \in 1..Len(list) :
    p < q => /\ list[p] # list[q]
             /\ time_blocks_at_start[list[p]].start_time
                  <= time_blocks_at_start[list[q]].start_time

\* C22: the working list of either algorithm is built as exactly the blocks
\* passed in with status available, in ascending order of start, and later holds
\* only such blocks, still in that order; time_blocks_available is their number;
\* no decision names a block that was not available when the run began.
C22_OnlyAvailableCapacity ==
  /\ scheduling_run # << >> =>
       scheduling_run[1].time_blocks_available = Cardinality(AvailableAtStart)
  /\ pc \in {"loop", "done"} =>
       /\ {available_blocks[p] : p \in 1..Len(available_blocks)} \subseteq AvailableAtStart
       /\ AscendingByStart(available_blocks)
  /\ (pc = "loop" /\ iteration = 0) =>
       {available_blocks[p] : p \in 1..Len(available_blocks)} = AvailableAtStart
  /\ \A i \in 1..Len(attempts) :
       /\ AscendingByStart(attempts[i].working)
       /\ i = 1 => {attempts[i].working[p] : p \in 1..Len(attempts[i].working)}
                     = AvailableAtStart
  /\ \A d \in 1..Len(decisions) : decisions[d].time_block \in AvailableAtStart

\* A run given an occupied block ahead of an available one placed a task, and
\* its working list began with the available block alone.
C22_Witness ==
  /\ Len(time_blocks_at_start) = 2
  /\ time_blocks_at_start[1].status = "occupied"
  /\ Len(attempts) >= 1
  /\ attempts[1].working = <<2>>
  /\ Len(decisions) >= 1

\* The tasks of the iterations that ended with a placement, in attempt order.
PlacedTasks == [k \in 1..Len(SelectSeq(attempts, Placed)) |-> SelectSeq(attempts, Placed)[k].task]

\* C23: at every point of a run the decision list is as long as the count of
\* scheduled tasks and names the placed tasks in the order they were attempted,
\* each at most once; a step of the run leaves the list alone or appends one
\* decision to it, never removing or changing an entry; the returned decisions
\* are that list.
C23_DecisionsAppendOnly ==
  /\ [](/\ pc \in {"loop", "done"} => Len(decisions) = scheduled_tasks
        /\ [k \in 1..Len(decisions) |-> decisions[k].task] = PlacedTasks
        /\ \A j, k \in 1..Len(decisions) : j # k => decisions[j].task # decisions[k].task
        /\ Completed => result[1].decisions = decisions)
  /\ [][/\ Len(decisions') \in {Len(decisions), Len(decisions) + 1}
        /\ SubSeq(decisions', 1, Len(decisions)) = decisions]_vars

\* A completed run that made two decisions, the second task attempted being the
\* second decided.
C23_Witness ==
  /\ Completed
  /\ Len(decisions) = 2
  /\ Len(attempts) = 2
  /\ decisions[2].task = attempts[2].task

\* The blocks passed in cover disjoint spans of the calendar.
InputBlocksDisjoint ==
  \A a, b \in 1..Len(time_blocks_at_start) :
    a # b => \/ time_blocks_at_start[a].end_time <= time_blocks_at_start[b].start_time
             \/ time_blocks_at_start[b].end_time <= time_blocks_at_start[a].start_time

\* C24: within one run over blocks that do not overlap each other, no two
\* decisions cover overlapping time: the intervals [scheduled_start_time,
\* scheduled_end_time) of any two decisions are disjoint, also when both name the
\* same block.
C24_NoOverlap ==
  InputBlocksDisjoint =>
    \A j, k \in 1..Len(decisions) :
      j # k => \/ decisions[j].scheduled_end_time <= decisions[k].scheduled_start_time
               \/ decisions[k].scheduled_end_time <= decisions[j].scheduled_start_time

\* C25: every task with a deadline that run_edf_scheduling places has a decision
\* whose scheduled_end_time is at or before the deadline.
C25_EdfMeetsDeadlines ==
  algorithm = "EDF" =>
    \A d \in 1..Len(decisions) :
      ~IsNone(tasks[decisions[d].task].deadline) =>
        decisions[d].scheduled_end_time <= Deadline(decisions[d].task)

\* Position of task t in the order of attempts.
PositionOf(t) == CHOOSE p \in 1..Len(sorted_tasks) : sorted_tasks[p] = t

\* C26: of two tasks with the same urgency multiplier, deadline and category,
\* run_hpf_scheduling attempts first the one whose base_priority is the more
\* important, base_priority 1 being the most important and 5 the least.
C26_HpfImportantFirst ==
  (algorithm = "HPF" /\ pc \in {"loop", "done"}) =>
    \A a, b \in 1..Len(tasks) :
      (/\ tasks[a].urgency_multiplier = tasks[b].urgency_multiplier
       /\ tasks[a].deadline = tasks[b].deadline
       /\ tasks[a].category = tasks[b].category
       /\ tasks[a].base_priority < tasks[b].base_priority) =>
        PositionOf(a) < PositionOf(b)

(***************************************************************************)
(* DialogueManager (src/backend/deeptalk/dialogue_manager.py).  A string   *)
(* is the sequence of its characters.                                      *)
(***************************************************************************)
\* str.lower() on one character
lower_char(c) ==
  CASE c = "A" -> "a" [] c = "B" -> "b" [] c = "C" -> "c" [] c = "D" -> "d"
    [] c = "E" -> "e" [] c = "F" -> "f" [] c = "G" -> "g" [] c = "H" -> "h"
    [] c = "I" -> "i" [] c = "J" -> "j" [] c = "K" -> "k" [] c = "L" -> "l"
    [] c = "M" -> "m" [] c = "N" -> "n" [] c = "O" -> "o" [] c = "P" -> "p"
    [] c = "Q" -> "q" [] c = "R" -> "r" [] c = "S" -> "s" [] c = "T" -> "t"
    [] c = "U" -> "u" [] c = "V" -> "v" [] c = "W" -> "w" [] c = "X" -> "x"
    [] c = "Y" -> "y" [] c = "Z" -> "z"
    [] OTHER -> c

\* str.lower()
lower(text) == [i \in 1..Len(text) |-> lower_char(text[i])]

\* word in text
contains(text, word) ==
  \E i \in 1..(Len(text) - Len(word) + 1) : SubSeq(text, i, i + Len(word) - 1) = word

\* any(word in text for word in words)
contains_any(text, words) == \E word \in words : contains(text, word)

\* str.strip()
strip(text) ==
  LET kept == {i \in 1..Len(text) : text[i] # " "}
  IN IF kept = {} THEN << >> ELSE SubSeq(text, MinOf(kept), MaxOf(kept))

\* The word lists of _classify_intent and _handle_schedule_confirmation.
schedule_words == {<<"s", "c", "h", "e", "d", "u", "l", "e">>, <<"b", "o", "o", "k">>, <<"p", "l", "a", "n">>}
reminder_words == {<<"r", "e", "m", "i", "n", "d">>, <<"r", "e", "m", "i", "n", "d", "e", "r">>, <<"a", "l", "e", "r", "t">>}
query_words == {<<"w", "h", "a", "t">>, <<"w", "h", "e", "n">>, <<"s", "h", "o", "w">>, <<"l", "i", "s", "t">>}
modify_words == {<<"c", "h", "a", "n", "g", "e">>, <<"m", "o", "d", "i", "f", "y">>, <<"u", "p", "d", "a", "t", "e">>, <<"e", "d", "i", "t">>}
delete_words == {<<"d", "e", "l", "e", "t", "e">>, <<"r", "e", "m", "o", "v", "e">>, <<"c", "a", "n", "c", "e", "l">>}
suggestion_words == {<<"s", "u", "g", "g", "e", "s", "t">>, <<"r", "e", "c", "o", "m", "m", "e", "n", "d">>, <<"h", "e", "l", "p">>, <<"i", "d", "e", "a", "s">>}
confirmation_words == {<<"y", "e", "s">>, <<"o", "k">>, <<"s", "u", "r", "e">>, <<"g", "o", " ", "a", "h", "e", "a", "d">>, <<"c", "o", "n", "f", "i", "r", "m">>}
cancellation_words == {<<"n", "o">>, <<"c", "a", "n", "c", "e", "l">>, <<"w", "a", "i", "t">>, <<"n", "o", "t", " ", "y", "e", "t">>}
question_words == {<<"w", "h", "e", "n">>, <<"h", "o", "w">>, <<"w", "h", "a", "t">>, <<"w", "h", "e", "r", "e">>}

\* What the user may type.
UserInputs ==
  { <<"Y", "e", "s", " ", "p", "l", "e", "a", "s", "e">>,
    <<"n", "o">>,
    <<"n", "o", ",", " ", "n", "o", "t", " ", "s", "u", "r", "e">>,
    <<"2", " ", "h", "o", "u", "r", "s">>,
    <<"4", "5", " ", "m", "i", "n", "u", "t", "e", "s">>,
    <<"s", "o", "o", "n">>,
    <<"w", "r", "i", "t", "e", " ", "r", "e", "p", "o", "r", "t">>,
    <<"s", "u", "g", "g", "e", "s", "t", " ", "i", "d", "e", "a", "s">>,
    <<"w", "h", "a", "t", " ", "n", "e", "x", "t">>,
    <<"c", "h", "a", "n", "g", "e", " ", "i", "t">> }

\* What the assistant may have made of the input (jarvis_response); the text of
\* ai_response is left out of every response.
JarvisResponses ==
  { [success |-> TRUE, should_create_task |-> FALSE],
    [success |-> TRUE, should_create_task |-> TRUE],
    [success |-> TRUE, should_create_task |-> TRUE,
     task |-> [name |-> <<"c", "a", "l", "l", " ", "m", "o", "m">>, estimated_duration_minutes |-> 30, base_priority |-> 3]],
    [success |-> TRUE, should_create_task |-> TRUE,
     task |-> [name |-> <<"w", "r", "i", "t", "e", " ", "r", "e", "p", "o", "r", "t">>, base_priority |-> 3]] }

\* dict.get(key) is truthy
has_value(dict, key) ==
  /\ key \in DOMAIN dict
  /\ CASE key \in {"should_create_task", "requires_confirmation"} -> dict[key]
       [] key \in {"estimated_duration_minutes", "duration", "base_priority"} -> dict[key] # 0
       [] OTHER -> dict[key] # << >>

\* DialogueManager._classify_intent
classify_intent(jarvis_response, user_input) ==
  IF has_value(jarvis_response, "should_create_task") THEN "create_task"
  ELSE IF contains_any(lower(user_input), schedule_words) THEN "schedule_event"
  ELSE IF contains_any(lower(user_input), reminder_words) THEN "create_reminder"
  ELSE IF contains_any(lower(user_input), query_words) THEN "query_schedule"
  ELSE IF contains_any(lower(user_input), modify_words) THEN "modify_task"
  ELSE IF contains_any(lower(user_input), delete_words) THEN "delete_task"
  ELSE IF contains_any(lower(user_input), suggestion_words) THEN "get_suggestions"
  ELSE "casual_chat"

\* DialogueManager._check_missing_details
check_missing_details(task_data) ==
  (IF ~has_value(task_data, "name") \/ Len(strip(task_data["name"])) < 3
   THEN <<"name">> ELSE << >>)
  \o (IF ~has_value(task_data, "estimated_duration_minutes")
      THEN <<"duration">> ELSE << >>)
  \o (IF (IF "base_priority" \in DOMAIN task_data THEN task_data["base_priority"] ELSE 3) <= 2
         /\ ~has_value(task_data, "deadline")
      THEN <<"deadline">> ELSE << >>)

is_digit(c) == c \in DOMAIN DigitVal

\* re.search(r'(\d+)\s*' + unit, text): the spans <<i, j>> of digits at which
\* the pattern matches.
number_matches(text, unit) ==
  {m \in (1..Len(text)) \X (1..Len(text)) :
     /\ m[1] <= m[2]
     /\ \A d \in m[1]..m[2] : is_digit(text[d])
     /\ \E k \in (m[2] + 1)..(Len(text) - Len(unit) + 1) :
          /\ \A w \in (m[2] + 1)..(k - 1) : text[w] = " "
          /\ SubSeq(text, k, k + Len(unit) - 1) = unit}

\* int(match.group(1)) of the leftmost match, its digits taken greedily
matched_number(text, unit) ==
  LET i == MinOf({m[1] : m \in number_matches(text, unit)})
      j == MaxOf({m[2] : m \in {n \in number_matches(text, unit) : n[1] = i}})
  IN DigitsToInt(SubSeq(text, i, j))

\* DialogueManager._extract_specific_detail; None when nothing is extracted
extract_specific_detail(user_input, detail_type) ==
  IF detail_type = Some("duration")
  THEN IF number_matches(lower(user_input), <<"h", "o", "u", "r">>) # {}
       THEN Some(matched_number(lower(user_input), <<"h", "o", "u", "r">>) * 60)
       ELSE IF number_matches(lower(user_input), <<"h", "r">>) # {}
       THEN Some(matched_number(lower(user_input), <<"h", "r">>) * 60)
       ELSE IF number_matches(lower(user_input), <<"m", "i", "n", "u", "t", "e">>) # {}
       THEN Some(matched_number(lower(user_input), <<"m", "i", "n", "u", "t", "e">>))
       ELSE IF number_matches(lower(user_input), <<"m", "i", "n">>) # {}
       THEN Some(matched_number(lower(user_input), <<"m", "i", "n">>))
       ELSE None
  ELSE IF detail_type = Some("name")
  THEN IF Len(strip(user_input)) > 3 /\ ~contains_any(lower(user_input), question_words)
       THEN Some(strip(user_input))
       ELSE None
  ELSE None

\* DialogueManager._handle_idle_state: the context and the response it leaves.
handle_idle_state(ctx, jarvis_response) ==
  IF ctx.current_intent = Some("create_task")
  THEN IF has_value(jarvis_response, "task")
       THEN LET task_data == jarvis_response["task"]
                missing_details == check_missing_details(task_data)
            IN IF missing_details # << >>
               THEN [context |-> [ctx EXCEPT !.current_state = "collecting_task_details",
                                             !.pending_task_data = task_data,
                                             !.clarification_needed = Some(missing_details[1])],
                     response |-> [state |-> "collecting_task_details",
                                   needs_clarification |-> TRUE,
                                   missing_detail |-> missing_details[1]] @@ jarvis_response]
               ELSE [context |-> [ctx EXCEPT !.current_state = "confirming_schedule"],
                     response |-> [state |-> "confirming_schedule",
                                   requires_confirmation |-> TRUE] @@ jarvis_response]
       ELSE [context |-> [ctx EXCEPT !.current_state = "clarifying_intent"],
             response |-> [state |-> "clarifying_intent",
                           needs_clarification |-> TRUE] @@ jarvis_response]
  ELSE IF ctx.current_intent = Some("query_schedule")
  THEN [context |-> ctx, response |-> [schedule_query |-> TRUE] @@ jarvis_response]
  ELSE IF ctx.current_intent = Some("get_suggestions")
  THEN \* PROVIDING_SUGGESTIONS is set and _generate_suggestions_response resets it
       [context |-> [ctx EXCEPT !.current_state = "idle"],
        response |-> [suggestions_provided |-> TRUE] @@ jarvis_response]
  ELSE [context |-> ctx, response |-> jarvis_response]

\* context.pending_task_data[detail_needed] = extracted_value
store_detail(task_data, detail_needed, value) ==
  [key \in {detail_needed} |-> value] @@ task_data

\* DialogueManager._handle_collecting_details
handle_collecting_details(ctx, jarvis_response, user_input) ==
  LET updated == IF has_value(jarvis_response, "task")
                 THEN jarvis_response["task"] @@ ctx.pending_task_data
                 ELSE ctx.pending_task_data
      detail_needed == ctx.clarification_needed
      extracted_value == extract_specific_detail(user_input, detail_needed)
      pending == IF /\ ~IsNone(extracted_value)
                    /\ (detail_needed = Some("duration") => Val(extracted_value) # 0)
                 THEN store_detail(updated, Val(detail_needed), Val(extracted_value))
                 ELSE updated
      missing_details == check_missing_details(pending)
  IN IF missing_details # << >>
     THEN [context |-> [ctx EXCEPT !.pending_task_data = pending,
                                   !.clarification_needed = Some(missing_details[1])],
           response |-> [success |-> TRUE, state |-> ctx.current_state,
                         needs_clarification |-> TRUE,
                         missing_detail |-> missing_details[1],
                         collected_so_far |-> pending]]
     ELSE [context |-> [ctx EXCEPT !.pending_task_data = pending,
                                   !.current_state = "confirming_schedule",
                                   !.clarification_needed = None],
           response |-> [success |-> TRUE, should_create_task |-> TRUE, task |-> pending,
                         state |-> "confirming_schedule", requires_confirmation |-> TRUE]]

\* The if / elif / else of _handle_schedule_confirmation
confirmation_branch(user_input) ==
  IF contains_any(lower(user_input), confirmation_words) THEN "confirmed"
  ELSE IF contains_any(lower(user_input), cancellation_words) THEN "cancelled"
  ELSE "modify"

\* DialogueManager._handle_schedule_confirmation
handle_schedule_confirmation(ctx, user_input) ==
  IF confirmation_branch(user_input) = "confirmed"
  THEN [context |-> [ctx EXCEPT !.current_state = "idle"],
        response |-> [success |-> TRUE, should_create_task |-> TRUE,
                      task |-> ctx.pending_task_data, state |-> "idle",
                      task_confirmed |-> TRUE]]
  ELSE IF confirmation_branch(user_input) = "cancelled"
  THEN [context |-> [ctx EXCEPT !.current_state = "idle", !.pending_task_data = empty_dict],
        response |-> [success |-> TRUE, should_create_task |-> FALSE, state |-> "idle",
                      task_cancelled |-> TRUE]]
  ELSE [context |-> [ctx EXCEPT !.current_state = "collecting_task_details"],
        response |-> [success |-> TRUE, state |-> "collecting_task_details",
                      needs_clarification |-> TRUE]]

\* The states _process_state_transition dispatches to a method the class defines.
handled_states == {"idle", "collecting_task_details", "confirming_schedule"}

\* DialogueManager._process_state_transition on a state of handled_states
process_state_transition(ctx, jarvis_response, user_input) ==
  IF ctx.current_state = "idle" THEN handle_idle_state(ctx, jarvis_response)
  ELSE IF ctx.current_state = "collecting_task_details"
  THEN handle_collecting_details(ctx, jarvis_response, user_input)
  ELSE handle_schedule_confirmation(ctx, user_input)

\* Longest conversation_history a context is followed to.
MaxHistory == 10

\* The AttributeError of a dispatch to a method the class does not define.
raised_response == [raised |-> "AttributeError"]

\* DialogueManager.process_user_input(user_input, user_id, jarvis_response,
\* session_id) on the one session; expired says whether more than
\* context_timeout_minutes have passed since last_interaction, in which case
\* get_or_create_context starts from a new context.
ProcessUserInput(user_input, jarvis_response, expired) ==
  LET found == IF expired THEN new_context ELSE context
      ctx == [found EXCEPT !.conversation_history = @ + 1,
                           !.current_intent = Some(classify_intent(jarvis_response, user_input))]
      raises == ctx.current_state \notin handled_states
      after == process_state_transition(ctx, jarvis_response, user_input)
  IN /\ found.conversation_history + 2 <= MaxHistory
     /\ last_input' = <<[user_input |-> user_input, jarvis_response |-> jarvis_response,
                         expired |-> expired, context |-> found]>>
     /\ IF raises
        THEN /\ context' = ctx
             /\ response' = <<raised_response>>
             /\ proposed_task' = IF expired THEN << >> ELSE proposed_task
        ELSE /\ context' = [after.context EXCEPT !.conversation_history = @ + 1]
             /\ response' = <<after.response>>
             /\ proposed_task' =
                  IF has_value(after.response, "requires_confirmation")
                  THEN <<IF "task" \in DOMAIN after.response
                         THEN after.response["task"] ELSE empty_dict>>
                  ELSE IF expired THEN << >> ELSE proposed_task
     /\ UNCHANGED <<tasks, time_blocks, time_blocks_at_start, algorithm, now, pc,
                    scheduling_run, sort_keys, sorted_tasks, available_blocks,
                    scheduled_tasks, unscheduled_tasks, decisions, total_priority_score,
                    iteration, attempts, result, other_run, alone_run>>

InitDialogue ==
  /\ context = new_context
  /\ response = << >>
  /\ last_input = << >>
  /\ proposed_task = << >>
  /\ tasks = << >>
  /\ time_blocks = << >>
  /\ time_blocks_at_start = << >>
  /\ algorithm = "EDF"
  /\ now = 0
  /\ pc = "call"
  /\ scheduling_run = << >>
  /\ sort_keys = << >>
  /\ sorted_tasks = << >>
  /\ available_blocks = << >>
  /\ scheduled_tasks = 0
  /\ unscheduled_tasks = 0
  /\ decisions = << >>
  /\ total_priority_score = 0
  /\ iteration = 0
  /\ attempts = << >>
  /\ result = << >>
  /\ other_run = << >>
  /\ alone_run = << >>

NextDialogue ==
  \E user_input \in UserInputs, jarvis_response \in JarvisResponses, expired \in BOOLEAN :
    ProcessUserInput(user_input, jarvis_response, expired)

SpecDialogue == InitDialogue /\ [][NextDialogue]_vars

\* The last call found the session in the given state and returned.
Answered(state) ==
  /\ last_input # << >>
  /\ last_input[1].context.current_state = state
  /\ response[1] # raised_response

\* C27: when the user confirms in CONFIRMING_SCHEDULE, the task returned for
\* creation is the task data that was put to the user for confirmation, not
\* empty data and not data of an earlier task.
C27_ConfirmedTaskIsProposed ==
  (Answered("confirming_schedule") /\ "task_confirmed" \in DOMAIN response[1]) =>
    /\ response[1].should_create_task
    /\ response[1].task # empty_dict
    /\ proposed_task # << >>
    /\ response[1].task = proposed_task[1]

\* C28: when COLLECTING_TASK_DETAILS asks for the duration, the answer holds a
\* duration that can be extracted and the assistant response carries no task
\* data, the duration is no longer missing and is not asked for again.
C28_DurationCollected ==
  (/\ Answered("collecting_task_details")
   /\ last_input[1].context.clarification_needed = Some("duration")
   /\ extract_specific_detail(last_input[1].user_input, Some("duration")) \notin {None, Some(0)}
   /\ ~has_value(last_input[1].jarvis_response, "task")) =>
    /\ \A k \in 1..Len(check_missing_details(context.pending_task_data)) :
         check_missing_details(context.pending_task_data)[k] # "duration"
    /\ "missing_detail" \in DOMAIN response[1] => response[1].missing_detail # "duration"

\* C29: process_user_input returns a response, without raising, in every state a
\* session can reach from IDLE.
C29_EveryStateHandled ==
  response # << >> => response[1] # raised_response

\* C30: in CONFIRMING_SCHEDULE an input that holds a cancellation word creates no
\* task: should_create_task is false, pending_task_data is cleared and the state
\* becomes IDLE, also when the input holds a confirmation word as well.
C30_CancelWins ==
  (/\ Answered("confirming_schedule")
   /\ contains_any(lower(last_input[1].user_input), cancellation_words)) =>
    /\ "should_create_task" \in DOMAIN response[1]
    /\ ~response[1].should_create_task
    /\ context.pending_task_data = empty_dict
    /\ context.current_state = "idle"
====
